---- MODULE Spec2Model ----
(***************************************************************************)
(* Model of the tiered key-value store FileHash (src/src/file_hash.rs) and  *)
(* of the free-space allocator DiskFree (src/src/disk_free.rs).             *)
(*                                                                         *)
(* Spec     : one FileHash handle driven through its public operations.    *)
(* SpecDF   : one DiskFree driven through add and find_free.               *)
(* SpecFV   : one FileVec (src/src/file_vec.rs) driven through its public   *)
(*            operations.                                                  *)
(* SpecFVRemove, SpecFVReverse : the same FileVec driven through push, set, *)
(*            pop, remove and clear, and through push, set and reverse.    *)
(* SpecAlloc : a FileHash beside a DiskFree that is given the same         *)
(*            releases and requests.                                       *)
(* SpecClone : a disk-backed FileHash and its clone, on one file.           *)
(* SpecTier : a disk-backed FileHash and an in-memory one, given the same   *)
(*            calls.                                                       *)
(* SpecIO   : one FileHash handle whose calls on the file can fail and      *)
(*            whose lock can be poisoned.                                  *)
(***************************************************************************)
EXTENDS Integers, Sequences, FiniteSets, TLC

VARIABLES
    id2pos,           \* HashMap<Key, (position, length)>
    file_handle,      \* Option<Arc<Mutex<File>>>: TRUE when Some
    file,             \* the bytes of the temporary file
    in_memory,        \* HashMap<Key, Value>
    disk_free,        \* Vec<(start, len)> of FileHash
    max_mem_entries,
    using_disk,
    abs,              \* ghost: the key-value map the caller has built
    phase,            \* ghost: "new", "fresh", "cleared" or "other"
    last,             \* ghost: the last FileHash operation
    parts,            \* DiskFree: Vec<PositionLength>
    dfFree,           \* ghost: the bytes released and not handed out again
    dfLast,           \* ghost: the last DiskFree operation
    file_vec,         \* FileVec: [file_hash, len]
    fvLast,           \* ghost: the last FileVec operation
    fvDiskOps,        \* ghost: the operations on disk since the flush or the last clear
    clone,            \* a second handle made by FileHash::clone, None before
    cloneAbs,         \* ghost: the key-value map built through the second handle
    twin,             \* a second FileHash, of its own, that stays in memory
    poisoned,         \* the Mutex around the file is poisoned
    ioLast            \* ghost: the last operation under failing I/O

fhVars == <<id2pos, file_handle, file, in_memory, disk_free, max_mem_entries,
            using_disk, abs, phase, last>>
dfVars == <<parts, dfFree, dfLast>>
fvVars == <<file_vec, fvLast, fvDiskOps>>
cloneVars == <<clone, cloneAbs>>
ioVars == <<poisoned, ioLast>>
\* the variables of the specifications of two handles, of two stores and of
\* failing I/O
moreVars == <<cloneVars, twin, ioVars>>
vars == <<fhVars, dfVars, fvVars, moreVars>>

----------------------------------------------------------------------------
(* Bounds *)

MaxValLen == 1        \* longest string value, in characters
MaxFileLen == 5       \* the file is not grown beyond this many bytes
MaxFree == 1          \* disk_free is not grown beyond this many entries
MaxThreshold == 1     \* set_max_mem_entries takes 0..MaxThreshold
MaxPos == 6           \* DiskFree ranges lie within [0, MaxPos)
FVMaxLen == 5         \* a FileVec is not grown beyond this many elements
FVMaxFileLen == 13    \* the file of a FileVec is not grown beyond this many bytes
FVMaxFree == 1        \* its disk_free is not grown beyond this many entries
FVMaxDiskOps == 3     \* operations followed after a flush to disk or a clear
FVMaxOrders == 1      \* key orders followed when a FileVec is flushed to disk
AllocMaxFileLen == 8  \* file bound of the FileHash run beside a DiskFree
AllocMaxFree == 2     \* bound on its disk_free

----------------------------------------------------------------------------
(* Keys, values and their JSON encoding *)

MAX_MEM_ENTRIES == 5

Keys == {"Q123", "Q456"}

Quote == 34
Chars == {97}

RECURSIVE SeqsUpTo(_)
SeqsUpTo(n) ==
    IF n = 0 THEN {<<>>}
    ELSE LET S == SeqsUpTo(n - 1)
         IN  S \cup {Append(s, c) : s \in {t \in S : Len(t) = n - 1}, c \in Chars}

Values == SeqsUpTo(MaxValLen)

\* the rows pushed onto a FileVec: "" and "a"
Rows == {<<>>, <<97>>}

None == <<>>
Some(x) == <<x>>

\* serde_json::to_string of a string without characters to escape
Encode(value) == <<Quote>> \o value \o <<Quote>>

\* String::from_utf8 followed by serde_json::from_str::<String>
Decode(buffer) ==
    IF /\ Len(buffer) >= 2
       /\ buffer[1] = Quote
       /\ buffer[Len(buffer)] = Quote
       /\ \A i \in 2..(Len(buffer) - 1) : buffer[i] \in Chars
    THEN Some(SubSeq(buffer, 2, Len(buffer) - 1))
    ELSE None

----------------------------------------------------------------------------
(* Maps and vectors *)

EmptyMap == [x \in {} |-> <<>>]
MapInsert(m, k, v) == [x \in DOMAIN m \cup {k} |-> IF x = k THEN v ELSE m[x]]
MapRemove(m, k) == [x \in DOMAIN m \ {k} |-> m[x]]
MapGet(m, k) == IF k \in DOMAIN m THEN Some(m[k]) ELSE None
MapLen(m) == Cardinality(DOMAIN m)

VecRemove(v, i) == SubSeq(v, 1, i - 1) \o SubSeq(v, i + 1, Len(v))
VecInsert(v, i, x) == SubSeq(v, 1, i - 1) \o <<x>> \o SubSeq(v, i, Len(v))

\* seek(Start(position)); write_all(bytes): a gap past the end reads as zeros
WriteAt(f, position, bytes) ==
    LET end == position + Len(bytes)
        n == IF end > Len(f) THEN end ELSE Len(f)
    IN  [i \in 1..n |->
            IF i > position /\ i <= end THEN bytes[i - position]
            ELSE IF i <= Len(f) THEN f[i] ELSE 0]

\* the orders in which a HashMap may iterate over the keys in S
Orders(S) ==
    {o \in [1..Cardinality(S) -> S] : \A i, j \in DOMAIN o : i # j => o[i] # o[j]}

----------------------------------------------------------------------------
(* FileHash *)

Self ==
    [id2pos |-> id2pos, file_handle |-> file_handle, file |-> file,
     in_memory |-> in_memory, disk_free |-> disk_free,
     max_mem_entries |-> max_mem_entries, using_disk |-> using_disk]

new ==
    [id2pos |-> EmptyMap, file_handle |-> FALSE, file |-> <<>>,
     in_memory |-> EmptyMap, disk_free |-> <<>>,
     max_mem_entries |-> MAX_MEM_ENTRIES, using_disk |-> FALSE]

len(s) == MapLen(s.in_memory) + MapLen(s.id2pos)

is_empty(s) == DOMAIN s.in_memory = {} /\ DOMAIN s.id2pos = {}

get_disk(s, key) ==
    IF ~s.file_handle THEN None
    ELSE IF key \notin DOMAIN s.id2pos THEN None
    ELSE LET start == s.id2pos[key][1]
             length == s.id2pos[key][2]
         IN  IF start + length > Len(s.file) THEN None
             ELSE Decode(SubSeq(s.file, start + 1, start + length))

get(s, key) ==
    IF s.using_disk THEN get_disk(s, key) ELSE MapGet(s.in_memory, key)

contains(s, key) ==
    IF s.using_disk THEN key \in DOMAIN s.id2pos ELSE key \in DOMAIN s.in_memory

keys(s) == IF s.using_disk THEN DOMAIN s.id2pos ELSE DOMAIN s.in_memory

\* mutant: clear also resets the mode
clear_resets_mode(s) ==
    [s EXCEPT !.id2pos = EmptyMap,
              !.in_memory = EmptyMap,
              !.using_disk = FALSE,
              !.file = IF s.file_handle THEN <<>> ELSE @]

clear(s) ==
    [s EXCEPT !.id2pos = EmptyMap,
              !.in_memory = EmptyMap,
              !.file = IF s.file_handle THEN <<>> ELSE @]

remove(s, key) ==
    IF s.using_disk
    THEN IF get(s, key) # None
         THEN [s EXCEPT !.id2pos = MapRemove(@, key)]
         ELSE s
    ELSE [s EXCEPT !.in_memory = MapRemove(@, key)]

SwapEntries(m, idx1, idx2) ==
    LET v1 == MapGet(m, idx1)
        v2 == MapGet(m, idx2)
        r == MapRemove(MapRemove(m, idx1), idx2)
    IN  IF v1 # None /\ v2 = None THEN MapInsert(r, idx2, v1[1])
        ELSE IF v1 = None /\ v2 # None THEN MapInsert(r, idx1, v2[1])
        ELSE IF v1 # None /\ v2 # None
             THEN MapInsert(MapInsert(r, idx1, v2[1]), idx2, v1[1])
        ELSE r

swap_mem(s, idx1, idx2) == [s EXCEPT !.in_memory = SwapEntries(@, idx1, idx2)]

\* mutant: the index entries on disk are not exchanged
swap_disk_skipped(s, idx1, idx2) == s

swap_disk(s, idx1, idx2) == [s EXCEPT !.id2pos = SwapEntries(@, idx1, idx2)]

swap(s, idx1, idx2) ==
    IF idx1 = idx2 THEN s
    ELSE IF s.using_disk THEN swap_disk(s, idx1, idx2)
    ELSE swap_mem(s, idx1, idx2)

\* index of the first free entry with len >= size, 0 when there is none
FirstFit(df, size) ==
    IF \E i \in DOMAIN df : df[i][2] >= size
    THEN CHOOSE i \in DOMAIN df :
            /\ df[i][2] >= size
            /\ \A j \in 1..(i - 1) : df[j][2] < size
    ELSE 0

get_file_pos_to_write(s, size) ==
    LET num == FirstFit(s.disk_free, size)
    IN  IF num = 0
        THEN [position |-> Len(s.file), disk_free |-> s.disk_free]
        ELSE LET start == s.disk_free[num][1]
                 length == s.disk_free[num][2]
             IN  [position |-> start,
                  disk_free |->
                    IF length = size THEN VecRemove(s.disk_free, num)
                    ELSE [s.disk_free EXCEPT ![num] = <<start + size, length - size>>]]

release_storage(s, key) ==
    IF key \in DOMAIN s.id2pos
    THEN [s EXCEPT !.id2pos = MapRemove(@, key),
                   !.disk_free = Append(@, s.id2pos[key])]
    ELSE s

get_or_create_file_handle(s) ==
    IF s.file_handle THEN s ELSE [s EXCEPT !.file_handle = TRUE, !.file = <<>>]

\* mutant: the seek is missing, the bytes go to the end of the file
insert_disk_no_seek(s, key, value) ==
    LET s1 == release_storage(get_or_create_file_handle(s), key)
        bytes == Encode(value)
        size == Len(bytes)
        w == get_file_pos_to_write(s1, size)
    IN  [s1 EXCEPT !.disk_free = w.disk_free,
                   !.file = WriteAt(@, Len(s1.file), bytes),
                   !.id2pos = MapInsert(@, key, <<w.position, size>>)]

insert_disk(s, key, value) ==
    LET s1 == release_storage(get_or_create_file_handle(s), key)
        bytes == Encode(value)
        size == Len(bytes)
        w == get_file_pos_to_write(s1, size)
    IN  [s1 EXCEPT !.disk_free = w.disk_free,
                   !.file = WriteAt(@, w.position, bytes),
                   !.id2pos = MapInsert(@, key, <<w.position, size>>)]

\* order: the order in which in_memory.keys() yields the keys
RECURSIVE FlushKeys(_, _)
FlushKeys(s, order) ==
    IF order = <<>> THEN s
    ELSE FlushKeys(insert_disk(s, Head(order), s.in_memory[Head(order)]), Tail(order))

\* mutant: the in-memory entries are kept after the flush
flush_keeps_memory(s, order) ==
    [FlushKeys(s, order) EXCEPT !.using_disk = TRUE]

flush_mem_to_disk(s, order) ==
    [FlushKeys(s, order) EXCEPT !.in_memory = EmptyMap, !.using_disk = TRUE]

insert_mem(s, key, value, order) ==
    IF MapLen(s.in_memory) >= s.max_mem_entries
    THEN insert_disk(flush_mem_to_disk(s, order), key, value)
    ELSE [s EXCEPT !.in_memory = MapInsert(@, key, value)]

insert(s, key, value, order) ==
    IF s.using_disk THEN insert_disk(s, key, value)
    ELSE insert_mem(s, key, value, order)

\* order: the order of self.keys(); keep: the keys whose entry f accepts
RECURSIVE retain(_, _, _)
retain(s, order, keep) ==
    IF order = <<>> THEN s
    ELSE LET key == Head(order)
             s1 == IF get(s, key) = None THEN s
                   ELSE IF key \notin keep THEN remove(s, key)
                   ELSE s
         IN  retain(s1, Tail(order), keep)

set_max_mem_entries(s, n) == [s EXCEPT !.max_mem_entries = n]

----------------------------------------------------------------------------
(* FileHash when a call on the file fails or the lock of the file is        *)
(* poisoned.  An operation yields the FileHash it leaves and its result.    *)
(* psn: the lock is poisoned.  fail: the call of insert_disk that fails     *)
(* (at, counted from 1 within one insert; 0 for none), the call on the file *)
(* that fails in it (kind) and, for a failing write_all, the bytes that     *)
(* reached the file before the error (written).  The operators above are    *)
(* these with a sound lock and no failure.                                  *)

NoFailure == [at |-> 0, kind |-> "none", written |-> 0]

FailureAt(fail, i) == IF fail.at = i THEN fail ELSE NoFailure

\* self.file_handle.as_ref()?.lock().ok()? in get_disk
get_io(s, key, psn) ==
    IF s.using_disk /\ s.file_handle /\ psn THEN None ELSE get(s, key)

remove_io(s, key, psn) ==
    IF s.using_disk
    THEN LET value == get_io(s, key, psn)
         IN  [s |-> IF value # None THEN [s EXCEPT !.id2pos = MapRemove(@, key)]
                    ELSE s,
              result |-> value]
    ELSE [s |-> [s EXCEPT !.in_memory = MapRemove(@, key)],
          result |-> MapGet(s.in_memory, key)]

RECURSIVE retain_io(_, _, _, _)
retain_io(s, order, keep, psn) ==
    IF order = <<>> THEN s
    ELSE LET key == Head(order)
             s1 == IF get_io(s, key, psn) = None THEN s
                   ELSE IF key \notin keep THEN remove_io(s, key, psn).s
                   ELSE s
         IN  retain_io(s1, Tail(order), keep, psn)

\* set_len_fails: fh.set_len(0) returns an error
clear_io(s, psn, set_len_fails) ==
    LET s1 == [s EXCEPT !.id2pos = EmptyMap, !.in_memory = EmptyMap]
    IN  IF ~s.file_handle THEN [s |-> s1, result |-> "Ok"]
        ELSE IF psn \/ set_len_fails THEN [s |-> s1, result |-> "Err"]
        ELSE [s |-> [s1 EXCEPT !.file = <<>>], result |-> "Ok"]

insert_disk_io(s, key, value, psn, fail) ==
    IF ~s.file_handle /\ fail.kind = "tempfile" THEN [s |-> s, result |-> "Err"]
    ELSE IF s.file_handle /\ psn THEN [s |-> s, result |-> "Err"]
    ELSE LET s1 == release_storage(get_or_create_file_handle(s), key)
             bytes == Encode(value)
             size == Len(bytes)
             w == get_file_pos_to_write(s1, size)
             s2 == [s1 EXCEPT !.disk_free = w.disk_free]
             n == IF fail.written < size THEN fail.written ELSE size - 1
         IN  IF fail.kind = "metadata" THEN [s |-> s1, result |-> "Err"]
             ELSE IF fail.kind = "seek" THEN [s |-> s2, result |-> "Err"]
             ELSE IF fail.kind = "write"
             THEN [s |-> [s2 EXCEPT !.file = WriteAt(@, w.position, SubSeq(bytes, 1, n))],
                   result |-> "Err"]
             ELSE [s |-> [s2 EXCEPT !.file = WriteAt(@, w.position, bytes),
                                    !.id2pos = MapInsert(@, key, <<w.position, size>>)],
                   result |-> "Ok"]

\* the loop of flush_mem_to_disk; i: the number of its next call of insert_disk
RECURSIVE FlushKeysIO(_, _, _, _, _)
FlushKeysIO(s, order, psn, fail, i) ==
    IF order = <<>> THEN [s |-> s, result |-> "Ok"]
    ELSE LET r == insert_disk_io(s, Head(order), s.in_memory[Head(order)], psn,
                                 FailureAt(fail, i))
         IN  IF r.result = "Err" THEN r
             ELSE FlushKeysIO(r.s, Tail(order), psn, fail, i + 1)

flush_mem_to_disk_io(s, order, psn, fail) ==
    LET r == FlushKeysIO(s, order, psn, fail, 1)
    IN  IF r.result = "Err" THEN r
        ELSE [s |-> [r.s EXCEPT !.in_memory = EmptyMap, !.using_disk = TRUE],
              result |-> "Ok"]

insert_mem_io(s, key, value, order, psn, fail) ==
    IF MapLen(s.in_memory) >= s.max_mem_entries
    THEN LET r == flush_mem_to_disk_io(s, order, psn, fail)
         IN  IF r.result = "Err" THEN r
             ELSE insert_disk_io(r.s, key, value, psn, FailureAt(fail, Len(order) + 1))
    ELSE [s |-> [s EXCEPT !.in_memory = MapInsert(@, key, value)], result |-> "Ok"]

insert_io(s, key, value, order, psn, fail) ==
    IF s.using_disk THEN insert_disk_io(s, key, value, psn, FailureAt(fail, 1))
    ELSE insert_mem_io(s, key, value, order, psn, fail)

----------------------------------------------------------------------------
(* FileVec: a FileHash keyed by position, and len.  An operation yields the *)
(* FileVec it leaves and its result; the result "panic" stands for a panic, *)
(* with the FileVec as it was when the panic was raised.                    *)

FileVec_new == [file_hash |-> new, len |-> 0]

FileVec_len(fv) == fv.len

FileVec_is_empty(fv) == fv.len = 0

FileVec_get(fv, pos) == get(fv.file_hash, pos)

\* order: the order of a flush of the in-memory entries, should insert flush
FileVec_push(fv, row, order) ==
    [file_hash |-> insert(fv.file_hash, fv.len, row, order), len |-> fv.len + 1]

FileVec_set(fv, pos, row, order) ==
    IF pos < fv.len
    THEN [fv |-> [fv EXCEPT !.file_hash = insert(@, pos, row, order)],
          result |-> "Ok"]
    ELSE [fv |-> fv, result |-> "Err"]

FileVec_clear(fv) == [file_hash |-> clear(fv.file_hash), len |-> 0]

FileVec_pop(fv) ==
    IF fv.len > 0
    THEN [fv |-> [file_hash |-> remove(fv.file_hash, fv.len - 1),
                  len |-> fv.len - 1],
          result |-> get(fv.file_hash, fv.len - 1)]
    ELSE [fv |-> fv, result |-> None]

FileVec_swap(fv, idx1, idx2) ==
    IF idx1 >= fv.len \/ idx2 >= fv.len
    THEN [fv |-> fv, result |-> "Err"]
    ELSE [fv |-> [fv EXCEPT !.file_hash = swap(@, idx1, idx2)], result |-> "Ok"]

\* mutant: the elements after idx are not moved
ShiftDown_skipped(fv, pos) == fv

\* for pos in idx + 1..self.len { self.swap(pos - 1, pos).ok()?; }
RECURSIVE ShiftDown(_, _)
ShiftDown(fv, pos) ==
    IF pos >= fv.len THEN fv
    ELSE ShiftDown(FileVec_swap(fv, pos - 1, pos).fv, pos + 1)

FileVec_remove(fv, idx) ==
    IF idx >= fv.len THEN [fv |-> fv, result |-> None]
    ELSE FileVec_pop(ShiftDown(fv, idx + 1))

\* while self.len > write_pos { self.pop(); }
RECURSIVE PopDownTo(_, _)
PopDownTo(fv, write_pos) ==
    IF fv.len > write_pos THEN PopDownTo(FileVec_pop(fv).fv, write_pos) ELSE fv

\* the loop over read_pos of retain; keep: the values that f accepts
RECURSIVE RetainLoop(_, _, _, _)
RetainLoop(fv, read_pos, write_pos, keep) ==
    IF read_pos >= fv.len
    THEN [fv |-> PopDownTo(fv, write_pos), result |-> "Ok"]
    ELSE LET value == FileVec_get(fv, read_pos)
         IN  IF value = None THEN [fv |-> fv, result |-> "panic"]
             ELSE IF value[1] \in keep
             THEN RetainLoop([fv EXCEPT !.file_hash = swap(@, read_pos, write_pos)],
                             read_pos + 1, write_pos + 1, keep)
             ELSE RetainLoop(fv, read_pos + 1, write_pos, keep)

FileVec_retain(fv, keep) == RetainLoop(fv, 0, 0, keep)

\* String::cmp: lexicographic order
RECURSIVE StrCmp(_, _)
StrCmp(a, b) ==
    IF a = <<>> /\ b = <<>> THEN "Equal"
    ELSE IF a = <<>> THEN "Less"
    ELSE IF b = <<>> THEN "Greater"
    ELSE IF Head(a) < Head(b) THEN "Less"
    ELSE IF Head(a) > Head(b) THEN "Greater"
    ELSE StrCmp(Tail(a), Tail(b))

\* the comparators handed to sort_by: |a, b| a.cmp(b) and |a, b| b.cmp(a)
Comparators == {"asc", "desc"}

Compare(f, a, b) == IF f = "asc" THEN StrCmp(a, b) ELSE StrCmp(b, a)

\* the inner loop of sort_by: min_idx after the loop, -1 when an expect panics
RECURSIVE SortInner(_, _, _, _)
SortInner(fv, j, min_idx, f) ==
    IF j >= fv.len THEN min_idx
    ELSE LET row_j == FileVec_get(fv, j)
             row_min_idx == FileVec_get(fv, min_idx)
         IN  IF row_j = None \/ row_min_idx = None THEN -1
             ELSE SortInner(fv, j + 1,
                            IF Compare(f, row_j[1], row_min_idx[1]) = "Less"
                            THEN j ELSE min_idx,
                            f)

RECURSIVE SortOuter(_, _, _)
SortOuter(fv, i, f) ==
    IF i >= fv.len THEN [fv |-> fv, result |-> "Ok"]
    ELSE LET min_idx == SortInner(fv, i + 1, i, f)
         IN  IF min_idx = -1 THEN [fv |-> fv, result |-> "panic"]
             ELSE SortOuter(FileVec_swap(fv, i, min_idx).fv, i + 1, f)

FileVec_sort_by(fv, f) == SortOuter(fv, 0, f)

\* while front < end { self.swap(front, end)?; front += 1; end -= 1; }
RECURSIVE ReverseLoop(_, _, _)
ReverseLoop(fv, front, end_) ==
    IF front < end_
    THEN ReverseLoop(FileVec_swap(fv, front, end_).fv, front + 1, end_ - 1)
    ELSE fv

\* self.len - 1 on an empty FileVec: the subtraction panics when overflow
\* checks are compiled in, and wraps to usize::MAX otherwise, and then
\* swap(0, usize::MAX) returns Err
FileVec_reverse(fv) ==
    IF fv.len = 0
    THEN {[fv |-> fv, result |-> "panic"], [fv |-> fv, result |-> "Err"]}
    ELSE {[fv |-> ReverseLoop(fv, 0, fv.len - 1), result |-> "Ok"]}

\* the items a loop over &FileVec receives: FileVecIterator::next is called
\* until it returns None
RECURSIVE IterItems(_, _)
IterItems(fv, index) ==
    IF index < fv.len
    THEN LET item == FileVec_get(fv, index)
         IN  IF item = None THEN <<>>
             ELSE <<item[1]>> \o IterItems(fv, index + 1)
    ELSE <<>>

into_iter(fv) == IterItems(fv, 0)

----------------------------------------------------------------------------
(* DiskFree *)

PositionLength(position, length) == [position |-> position, length |-> length]

end(pl) == pl.position + pl.length

\* iter().position(pred): index of the first element satisfying pred, 0 for None
FirstIdx(v, Pred(_)) ==
    IF \E i \in DOMAIN v : Pred(v[i])
    THEN CHOOSE i \in DOMAIN v : Pred(v[i]) /\ \A j \in 1..(i - 1) : ~Pred(v[j])
    ELSE 0

before_idx(ps, new_pl) ==
    LET Touches(pl) == end(pl) = new_pl.position IN FirstIdx(ps, Touches)

\* mutant: the neighbour after the new range is never looked for
after_idx_never(ps, new_pl) == 0

after_idx(ps, new_pl) ==
    LET Touches(pl) == pl.position = end(new_pl) IN FirstIdx(ps, Touches)

\* mutant: the new extent is pushed at the end
insert_idx_push(ps, new_pl) == Len(ps) + 1

\* the index at which the new extent is inserted (1-based)
insert_idx(ps, new_pl) ==
    LET lower == {i \in DOMAIN ps : ps[i].position < new_pl.position}
    IN  IF lower = {} THEN 1
        ELSE (CHOOSE i \in lower : \A j \in lower : j <= i) + 1

\* mutant: the bridging case keeps the "after" part
add_keeps_after(ps, new_pl) ==
    LET b == before_idx(ps, new_pl)
        a == after_idx(ps, new_pl)
    IN  IF b # 0 /\ a # 0
        THEN [ps EXCEPT ![b].length = end(ps[a]) - ps[b].position]
        ELSE IF b # 0
        THEN [ps EXCEPT ![b].length = @ + new_pl.length]
        ELSE IF a # 0
        THEN [ps EXCEPT ![a].position = new_pl.position,
                        ![a].length = @ + new_pl.length]
        ELSE VecInsert(ps, insert_idx(ps, new_pl), new_pl)

add(ps, new_pl) ==
    LET b == before_idx(ps, new_pl)
        a == after_idx(ps, new_pl)
    IN  IF b # 0 /\ a # 0
        THEN VecRemove([ps EXCEPT ![b].length = end(ps[a]) - ps[b].position], a)
        ELSE IF b # 0
        THEN [ps EXCEPT ![b].length = @ + new_pl.length]
        ELSE IF a # 0
        THEN [ps EXCEPT ![a].position = new_pl.position,
                        ![a].length = @ + new_pl.length]
        ELSE VecInsert(ps, insert_idx(ps, new_pl), new_pl)

\* mutant: no exact-match pass
exact_idx_skipped(ps, size) == 0

exact_idx(ps, size) ==
    LET Exact(part) == part.length = size IN FirstIdx(ps, Exact)

\* mutant: the pass over the larger extents finds nothing
large_idx_never(ps, size) == 0

large_idx(ps, size) ==
    LET Large(part) == part.length >= size IN FirstIdx(ps, Large)

\* mutant: the extent that is split keeps its length
find_free_keeps_length(ps, size) ==
    LET e == exact_idx(ps, size)
        f == large_idx(ps, size)
    IN  IF e # 0
        THEN [result |-> Some(ps[e].position), parts |-> VecRemove(ps, e)]
        ELSE IF f # 0
        THEN [result |-> Some(ps[f].position),
              parts |-> [ps EXCEPT ![f].position = @ + size]]
        ELSE [result |-> None, parts |-> ps]

find_free(ps, size) ==
    LET e == exact_idx(ps, size)
        f == large_idx(ps, size)
    IN  IF e # 0
        THEN [result |-> Some(ps[e].position), parts |-> VecRemove(ps, e)]
        ELSE IF f # 0
        THEN [result |-> Some(ps[f].position),
              parts |-> [ps EXCEPT ![f].length = @ - size,
                                   ![f].position = @ + size]]
        ELSE [result |-> None, parts |-> ps]

\* the bytes covered by the extents of ps
Bytes(ps) ==
    UNION {ps[i].position .. (end(ps[i]) - 1) : i \in DOMAIN ps}

----------------------------------------------------------------------------
(* One FileHash handle driven through its public operations *)

\* op: "new", "insert", "clear" or "other"; key, val: the arguments of an insert;
\* flush: "no" when the insert did not flush the in-memory entries to disk,
\* else "over_same" / "over_diff" when the operation before it was an insert
\* under the same key of a value of the same / another encoded size,
\* and "first" otherwise
NoOp == [op |-> "new", key |-> "", val |-> <<>>, flush |-> "no"]

Op(name, key) == [NoOp EXCEPT !.op = name, !.key = key]

Install(s) ==
    /\ id2pos' = s.id2pos
    /\ file_handle' = s.file_handle
    /\ file' = s.file
    /\ in_memory' = s.in_memory
    /\ disk_free' = s.disk_free
    /\ max_mem_entries' = s.max_mem_entries
    /\ using_disk' = s.using_disk

DFNoOp == [op |-> "new", position |-> 0, size |-> 0, result |-> None,
           bridged |-> FALSE, adds |-> TRUE]

\* op: "new", "remove" (of an element before the last one), "reverse" (of two
\* elements or more) or "other"; result: "panic" when the operation panicked
FVNoOp == [op |-> "new", result |-> "Ok"]

\* op: "new", "insert", "clear" or "other"; result: "Ok" or "Err"
IONoOp == [op |-> "new", result |-> "Ok"]

Init ==
    /\ id2pos = new.id2pos
    /\ file_handle = new.file_handle
    /\ file = new.file
    /\ in_memory = new.in_memory
    /\ disk_free = new.disk_free
    /\ max_mem_entries = new.max_mem_entries
    /\ using_disk = new.using_disk
    /\ abs = EmptyMap
    /\ phase = "new"
    /\ last = NoOp
    /\ parts = <<>>
    /\ dfFree = {}
    /\ dfLast = DFNoOp
    /\ file_vec = FileVec_new
    /\ fvLast = FVNoOp
    /\ fvDiskOps = 0
    /\ clone = None
    /\ cloneAbs = EmptyMap
    /\ twin = new
    /\ poisoned = FALSE
    /\ ioLast = IONoOp

\* the orders in which flush_mem_to_disk may visit the keys, when insert calls it
FlushOrders ==
    IF ~using_disk /\ MapLen(in_memory) >= max_mem_entries
    THEN Orders(DOMAIN in_memory)
    ELSE {<<>>}

\* insert, as far as the FileHash and its ghosts go
InsertFH(key, value) ==
    \E order \in FlushOrders :
        LET s == insert(Self, key, value, order)
            flushed == ~using_disk /\ s.using_disk
        IN  /\ Len(s.file) <= MaxFileLen
            /\ Len(s.disk_free) <= MaxFree
            /\ Install(s)
            /\ abs' = MapInsert(abs, key, value)
            /\ phase' = IF phase = "new" THEN "fresh" ELSE phase
            /\ last' = [Op("insert", key) EXCEPT
                            !.val = value,
                            !.flush = IF ~flushed THEN "no"
                                      ELSE IF ~(last.op = "insert" /\ last.key = key)
                                      THEN "first"
                                      ELSE IF Len(last.val) = Len(value)
                                      THEN "over_same" ELSE "over_diff"]

Insert(key, value) == InsertFH(key, value) /\ UNCHANGED <<dfVars, fvVars, moreVars>>

RemoveFH(key) ==
    /\ Install(remove(Self, key))
    /\ abs' = MapRemove(abs, key)
    /\ phase' = "other"
    /\ last' = Op("other", "")

Remove(key) == RemoveFH(key) /\ UNCHANGED <<dfVars, fvVars, moreVars>>

SwapFH(idx1, idx2) ==
    /\ Install(swap(Self, idx1, idx2))
    /\ abs' = IF idx1 = idx2 THEN abs ELSE SwapEntries(abs, idx1, idx2)
    /\ phase' = "other"
    /\ last' = Op("other", "")

Swap(idx1, idx2) == SwapFH(idx1, idx2) /\ UNCHANGED <<dfVars, fvVars, moreVars>>

RetainFH(keep) ==
    \E order \in Orders(keys(Self)) :
        /\ Install(retain(Self, order, keep))
        /\ abs' = [k \in DOMAIN abs \cap keep |-> abs[k]]
        /\ phase' = "other"
        /\ last' = Op("other", "")

Retain(keep) == RetainFH(keep) /\ UNCHANGED <<dfVars, fvVars, moreVars>>

ClearFH ==
    /\ Install(clear(Self))
    /\ abs' = EmptyMap
    /\ phase' = "cleared"
    /\ last' = Op("clear", "")

Clear == ClearFH /\ UNCHANGED <<dfVars, fvVars, moreVars>>

SetMaxMemEntriesFH(n) ==
    /\ Install(set_max_mem_entries(Self, n))
    /\ abs' = abs
    /\ phase' = IF phase = "new" THEN "new" ELSE "other"
    /\ last' = Op("other", "")

SetMaxMemEntries(n) ==
    SetMaxMemEntriesFH(n) /\ UNCHANGED <<dfVars, fvVars, moreVars>>

Next ==
    \/ \E key \in Keys, value \in Values : Insert(key, value)
    \/ \E key \in Keys : Remove(key)
    \/ \E idx1 \in Keys, idx2 \in Keys : Swap(idx1, idx2)
    \/ \E keep \in SUBSET Keys : Retain(keep)
    \/ Clear
    \/ \E n \in 0..MaxThreshold : SetMaxMemEntries(n)

Spec == Init /\ [][Next]_vars

----------------------------------------------------------------------------
(* One DiskFree driven through add and find_free.  A range is released only *)
(* when it has positive length and none of its bytes is free already.       *)

DFAdd(position, length) ==
    LET new_pl == PositionLength(position, length)
    IN  /\ length >= 1
        /\ position + length <= MaxPos
        /\ (position .. (position + length - 1)) \cap Bytes(parts) = {}
        /\ parts' = add(parts, new_pl)
        /\ dfFree' = dfFree \cup (position .. (position + length - 1))
        /\ dfLast' = [DFNoOp EXCEPT
                        !.op = "add", !.position = position, !.size = length,
                        !.bridged = (before_idx(parts, new_pl) # 0
                                     /\ after_idx(parts, new_pl) # 0),
                        !.adds = dfLast.adds]
        /\ UNCHANGED <<fhVars, fvVars, moreVars>>

DFFindFree(size) ==
    LET r == find_free(parts, size)
    IN  /\ parts' = r.parts
        /\ dfFree' = IF r.result = None THEN dfFree
                     ELSE dfFree \ (r.result[1] .. (r.result[1] + size - 1))
        /\ dfLast' = [DFNoOp EXCEPT
                        !.op = "find_free", !.size = size,
                        !.result = r.result, !.adds = FALSE]
        /\ UNCHANGED <<fhVars, fvVars, moreVars>>

DFNext ==
    \/ \E position \in 0..MaxPos, length \in 0..MaxPos : DFAdd(position, length)
    \/ \E size \in 0..MaxPos : DFFindFree(size)

SpecDF == Init /\ [][DFNext]_vars

----------------------------------------------------------------------------
(* One FileVec driven through its public operations.  After a panic the     *)
(* FileVec is not used again.  Once it is disk-backed, FVMaxDiskOps further *)
(* operations are followed, and as many after every clear.                 *)

\* the orders in which flush_mem_to_disk may visit the keys, when an insert
\* into the FileHash of the FileVec calls it
\* the order of in_memory.keys() is taken from the rotations of the ascending
\* order, r being the key visited first
FVFlushOrders ==
    LET s == file_vec.file_hash
        n == MapLen(s.in_memory)
    IN  IF ~s.using_disk /\ n >= s.max_mem_entries
        THEN {[i \in 1..n |-> (r + i - 1) % n] : r \in 0..(FVMaxOrders - 1)}
        ELSE {<<>>}

FVInstall(fv, op, result) ==
    /\ fvLast.result # "panic"
    /\ (file_vec.file_hash.using_disk /\ op # "clear") => fvDiskOps < FVMaxDiskOps
    /\ Len(fv.file_hash.file) <= FVMaxFileLen
    /\ Len(fv.file_hash.disk_free) <= FVMaxFree
    /\ file_vec' = fv
    /\ fvLast' = [op |-> IF op = "clear" THEN "other" ELSE op,
                   result |-> IF result = "panic" THEN "panic" ELSE "Ok"]
    /\ fvDiskOps' = IF file_vec.file_hash.using_disk /\ op # "clear"
                    THEN fvDiskOps + 1 ELSE 0
    /\ UNCHANGED <<fhVars, dfVars, moreVars>>

FVPush(row) ==
    /\ file_vec.len < FVMaxLen
    /\ \E order \in FVFlushOrders :
          FVInstall(FileVec_push(file_vec, row, order), "other", "Ok")

FVSet(pos, row) ==
    \E order \in FVFlushOrders :
        LET r == FileVec_set(file_vec, pos, row, order)
        IN  FVInstall(r.fv, "other", r.result)

FVPop ==
    LET r == FileVec_pop(file_vec)
    IN  FVInstall(r.fv, "other", "Ok")

FVRemove(idx) ==
    LET r == FileVec_remove(file_vec, idx)
    IN  FVInstall(r.fv, IF idx + 1 < file_vec.len THEN "remove" ELSE "other", "Ok")

FVRetain(keep) ==
    LET r == FileVec_retain(file_vec, keep)
    IN  FVInstall(r.fv, "other", r.result)

FVSortBy(f) ==
    LET r == FileVec_sort_by(file_vec, f)
    IN  FVInstall(r.fv, "other", r.result)

FVReverse ==
    \E r \in FileVec_reverse(file_vec) :
        FVInstall(r.fv, IF file_vec.len >= 2 THEN "reverse" ELSE "other", r.result)

FVClear == FVInstall(FileVec_clear(file_vec), "clear", "Ok")

FVIterate == FVInstall(file_vec, "other", "Ok")

FVNext ==
    \/ \E row \in Rows : FVPush(row)
    \/ \E pos \in 0..FVMaxLen, row \in Rows : FVSet(pos, row)
    \/ FVPop
    \/ \E idx \in 0..FVMaxLen : FVRemove(idx)
    \/ \E keep \in SUBSET Rows : FVRetain(keep)
    \/ \E f \in Comparators : FVSortBy(f)
    \/ FVReverse
    \/ FVClear
    \/ FVIterate

SpecFV == Init /\ [][FVNext]_vars

\* a FileVec that is filled, overwritten, cleared and shortened
FVRemoveNext ==
    \/ \E row \in Rows : FVPush(row)
    \/ \E pos \in 0..FVMaxLen, row \in Rows : FVSet(pos, row)
    \/ FVPop
    \/ \E idx \in 0..FVMaxLen : FVRemove(idx)
    \/ FVClear

SpecFVRemove == Init /\ [][FVRemoveNext]_vars

\* a FileVec that is filled, overwritten and reversed
FVReverseNext ==
    \/ \E row \in Rows : FVPush(row)
    \/ \E pos \in 0..FVMaxLen, row \in Rows : FVSet(pos, row)
    \/ FVReverse

SpecFVReverse == Init /\ [][FVReverseNext]_vars

----------------------------------------------------------------------------
(* One FileHash and one DiskFree side by side: every region that the        *)
(* FileHash releases is added to the DiskFree, and every size for which it  *)
(* looks for a file position is looked for in the DiskFree.  The pair is    *)
(* followed as long as both hold the same free bytes.                       *)

\* the bytes covered by the entries of the disk_free of a FileHash
FreeBytes(df) ==
    UNION {df[i][1] .. (df[i][1] + df[i][2] - 1) : i \in DOMAIN df}

\* insert_disk on the FileHash s, as the DiskFree ps sees it: release_storage
\* is an add, get_file_pos_to_write a find_free
MirrorInsertDisk(ps, s, key, value) ==
    LET ps1 == IF key \in DOMAIN s.id2pos
               THEN add(ps, PositionLength(s.id2pos[key][1], s.id2pos[key][2]))
               ELSE ps
    IN  find_free(ps1, Len(Encode(value)))

\* the calls of insert_disk made by flush_mem_to_disk, as the DiskFree sees them
RECURSIVE MirrorFlushKeys(_, _, _)
MirrorFlushKeys(ps, s, order) ==
    IF order = <<>> THEN ps
    ELSE MirrorFlushKeys(
            MirrorInsertDisk(ps, s, Head(order), s.in_memory[Head(order)]).parts,
            insert_disk(s, Head(order), s.in_memory[Head(order)]),
            Tail(order))

\* insert on the FileHash s, as the DiskFree sees it
MirrorInsert(ps, s, key, value, order) ==
    IF s.using_disk THEN MirrorInsertDisk(ps, s, key, value)
    ELSE IF MapLen(s.in_memory) >= s.max_mem_entries
    THEN MirrorInsertDisk(MirrorFlushKeys(ps, s, order),
                          flush_mem_to_disk(s, order), key, value)
    ELSE [result |-> None, parts |-> ps]

AllocInsert(key, value) ==
    \E order \in FlushOrders :
        LET s == insert(Self, key, value, order)
            r == MirrorInsert(parts, Self, key, value, order)
        IN  /\ FreeBytes(disk_free) = Bytes(parts)
            /\ Len(s.file) <= AllocMaxFileLen
            /\ Len(s.disk_free) <= AllocMaxFree
            /\ Install(s)
            /\ abs' = MapInsert(abs, key, value)
            /\ phase' = IF phase = "new" THEN "fresh" ELSE phase
            /\ last' = [Op("insert", key) EXCEPT
                            !.val = value,
                            !.flush = IF ~using_disk /\ s.using_disk
                                      THEN "first" ELSE "no"]
            /\ parts' = r.parts
            /\ dfFree' = Bytes(r.parts)
            /\ dfLast' = [DFNoOp EXCEPT
                            !.op = "find_free", !.size = Len(Encode(value)),
                            !.result = r.result, !.adds = FALSE]
            /\ UNCHANGED <<fvVars, moreVars>>

AllocNext ==
    \/ \E key \in Keys, value \in Values : AllocInsert(key, value)
    \/ \E key \in Keys : Remove(key)
    \/ \E n \in 0..MaxThreshold : SetMaxMemEntries(n)

SpecAlloc == Init /\ [][AllocNext]_vars

----------------------------------------------------------------------------
(* Two handles on one file: a disk-backed FileHash and its clone.  The      *)
(* derived Clone copies id2pos, in_memory, disk_free, max_mem_entries and   *)
(* using_disk, and clones the Arc, so that both handles write to one file.  *)
(* The first handle is the FileHash of Spec; every operation holds the lock *)
(* of the file while it reads or writes, so the operations of the two       *)
(* handles interleave as wholes.                                            *)

\* the second handle, with the file as it is now
CloneSelf == [clone[1] EXCEPT !.file = file]

\* the fields of its own that the second handle is left with
CloneInstall(s) ==
    /\ clone' = Some([s EXCEPT !.file = <<>>])
    /\ file' = s.file
    /\ UNCHANGED <<id2pos, file_handle, in_memory, disk_free, max_mem_entries,
                   using_disk, abs, phase, last>>
    /\ UNCHANGED <<dfVars, fvVars, twin, ioVars>>

CloneHandle ==
    /\ clone = None
    /\ using_disk
    /\ clone' = Some([Self EXCEPT !.file = <<>>])
    /\ cloneAbs' = EmptyMap
    /\ UNCHANGED <<fhVars, dfVars, fvVars, twin, ioVars>>

CloneInsert(key, value) ==
    /\ clone # None
    /\ LET s == insert(CloneSelf, key, value, <<>>)
       IN  /\ Len(s.file) <= MaxFileLen
           /\ Len(s.disk_free) <= MaxFree
           /\ CloneInstall(s)
           /\ cloneAbs' = MapInsert(cloneAbs, key, value)

CloneRemove(key) ==
    /\ clone # None
    /\ CloneInstall(remove(CloneSelf, key))
    /\ cloneAbs' = MapRemove(cloneAbs, key)

CloneNext ==
    \/ \E key \in Keys, value \in Values : Insert(key, value)
    \/ \E key \in Keys : Remove(key)
    \/ \E n \in 0..MaxThreshold : SetMaxMemEntries(n)
    \/ CloneHandle
    \/ \E key \in Keys, value \in Values : CloneInsert(key, value)
    \/ \E key \in Keys : CloneRemove(key)

SpecClone == Init /\ [][CloneNext]_vars

----------------------------------------------------------------------------
(* Two stores given the same calls: the FileHash of Spec, whose             *)
(* max_mem_entries is set to 0 before its first insert, so that it is       *)
(* disk-backed from then on, and twin, which keeps the threshold            *)
(* MAX_MEM_ENTRIES, above the number of keys, and stays in memory.          *)

TierFrame == UNCHANGED <<dfVars, fvVars, cloneVars, ioVars>>

TierSetUp ==
    /\ phase = "new"
    /\ max_mem_entries # 0
    /\ SetMaxMemEntriesFH(0)
    /\ UNCHANGED twin
    /\ TierFrame

TierInsert(key, value) ==
    /\ max_mem_entries = 0
    /\ InsertFH(key, value)
    /\ twin' = insert(twin, key, value, <<>>)
    /\ TierFrame

TierRemove(key) ==
    /\ max_mem_entries = 0
    /\ RemoveFH(key)
    /\ twin' = remove(twin, key)
    /\ TierFrame

TierSwap(idx1, idx2) ==
    /\ max_mem_entries = 0
    /\ SwapFH(idx1, idx2)
    /\ twin' = swap(twin, idx1, idx2)
    /\ TierFrame

TierRetain(keep) ==
    /\ max_mem_entries = 0
    /\ RetainFH(keep)
    /\ \E order \in Orders(keys(twin)) : twin' = retain(twin, order, keep)
    /\ TierFrame

TierClear ==
    /\ max_mem_entries = 0
    /\ ClearFH
    /\ twin' = clear(twin)
    /\ TierFrame

TierNext ==
    \/ TierSetUp
    \/ \E key \in Keys, value \in Values : TierInsert(key, value)
    \/ \E key \in Keys : TierRemove(key)
    \/ \E idx1 \in Keys, idx2 \in Keys : TierSwap(idx1, idx2)
    \/ \E keep \in SUBSET Keys : TierRetain(keep)
    \/ TierClear

SpecTier == Init /\ [][TierNext]_vars

----------------------------------------------------------------------------
(* One FileHash handle whose calls on the file can fail and whose lock can  *)
(* be poisoned: the lock is shared with the clones of the handle, and is    *)
(* poisoned when a thread panics while it holds it.  The ghosts of Spec are *)
(* not followed here.                                                       *)

\* the failures of one insert that makes n calls of insert_disk: no call
\* fails, or one does
IOFailures(n) ==
    {NoFailure}
    \cup {[at |-> a, kind |-> k, written |-> 0] :
            a \in 1..n, k \in {"tempfile", "metadata", "seek"}}
    \cup {[at |-> a, kind |-> "write", written |-> w] :
            a \in 1..n, w \in 0..(MaxValLen + 1)}

\* the calls of insert_disk that an insert makes when none fails
InsertDiskCalls ==
    IF using_disk THEN 1
    ELSE IF MapLen(in_memory) >= max_mem_entries THEN MapLen(in_memory) + 1
    ELSE 0

IOInstall(s, op, result) ==
    /\ Len(s.file) <= MaxFileLen
    /\ Len(s.disk_free) <= MaxFree
    /\ Install(s)
    /\ ioLast' = [op |-> op, result |-> result]
    /\ UNCHANGED <<abs, phase, last, poisoned, dfVars, fvVars, cloneVars, twin>>

IOInsert(key, value) ==
    \E order \in FlushOrders, fail \in IOFailures(InsertDiskCalls) :
        LET r == insert_io(Self, key, value, order, poisoned, fail)
        IN  IOInstall(r.s, "insert", r.result)

IORemove(key) == IOInstall(remove_io(Self, key, poisoned).s, "other", "Ok")

IOSwap(idx1, idx2) == IOInstall(swap(Self, idx1, idx2), "other", "Ok")

IORetain(keep) ==
    \E order \in Orders(keys(Self)) :
        IOInstall(retain_io(Self, order, keep, poisoned), "other", "Ok")

IOClear ==
    \E set_len_fails \in BOOLEAN :
        LET r == clear_io(Self, poisoned, set_len_fails)
        IN  IOInstall(r.s, "clear", r.result)

IOSetMaxMemEntries(n) == IOInstall(set_max_mem_entries(Self, n), "other", "Ok")

\* a thread that holds the lock of the file panics
Poison ==
    /\ file_handle
    /\ ~poisoned
    /\ poisoned' = TRUE
    /\ ioLast' = [op |-> "other", result |-> "Ok"]
    /\ UNCHANGED <<fhVars, dfVars, fvVars, cloneVars, twin>>

IONext ==
    \/ \E key \in Keys, value \in Values : IOInsert(key, value)
    \/ \E key \in Keys : IORemove(key)
    \/ \E idx1 \in Keys, idx2 \in Keys : IOSwap(idx1, idx2)
    \/ \E keep \in SUBSET Keys : IORetain(keep)
    \/ IOClear
    \/ \E n \in 0..MaxThreshold : IOSetMaxMemEntries(n)
    \/ Poison

SpecIO == Init /\ [][IONext]_vars

----------------------------------------------------------------------------
(* Properties of FileHash, checked under Spec *)

\* C1: a successful insert(k, v) is immediately followed by get(k) = Some(v).
C1_RoundTrip ==
    last.op = "insert" => get(Self, last.key) = Some(last.val)

\* the inserted value went to the disk, into a region before the end of the file
C1_Witness ==
    /\ last.op = "insert"
    /\ using_disk
    /\ last.key \in DOMAIN id2pos
    /\ id2pos[last.key][1] + id2pos[last.key][2] < Len(file)

Disjoint(r1, r2) == r1[1] + r1[2] <= r2[1] \/ r2[1] + r2[2] <= r1[1]

\* C2: every region recorded in id2pos is disjoint from every free extent in
\* disk_free and from the region of every other key.
C2_LiveRegionsDisjoint ==
    \A k \in DOMAIN id2pos :
        /\ \A i \in DOMAIN disk_free : Disjoint(id2pos[k], disk_free[i])
        /\ \A k2 \in DOMAIN id2pos \ {k} : Disjoint(id2pos[k], id2pos[k2])

\* a store on which nothing but insert has been called since new()
\* returns for every key the value last inserted under it
FreshStoreBehaviour ==
    phase \in {"new", "fresh"} => \A k \in Keys : get(Self, k) = MapGet(abs, k)

\* C3: after clear() the store is empty, and the inserts that follow it are
\* answered by get as on a fresh store: every key yields the value last
\* inserted under it since the clear, and no other key yields a value.
C3_ClearLikeFresh ==
    /\ last.op = "clear" => is_empty(Self)
    /\ phase = "cleared" => \A k \in Keys : get(Self, k) = MapGet(abs, k)

\* C4: a fresh store with max_mem_entries = N is in memory while it holds at
\* most N distinct keys; once it holds N+1 it is disk-backed, in_memory is
\* empty and get returns the inserted value of every key.
C4_ThresholdTransition ==
    phase \in {"new", "fresh"} =>
        /\ MapLen(abs) <= max_mem_entries => ~using_disk
        /\ MapLen(abs) > max_mem_entries =>
              /\ using_disk
              /\ in_memory = EmptyMap
              /\ \A k \in DOMAIN abs : get(Self, k) = Some(abs[k])

C5_Step ==
    /\ using_disk => using_disk'
    /\ last'.op = "clear" =>
          /\ using_disk' = using_disk
          /\ max_mem_entries' = max_mem_entries

\* C5: once using_disk is true no operation makes it false again, and clear
\* leaves using_disk and max_mem_entries as they were.
C5_ModeMonotonic == [][C5_Step]_vars

\* a disk-backed store has been cleared and is still disk-backed
C5_Witness ==
    /\ last.op = "clear"
    /\ using_disk
    /\ is_empty(Self)
    /\ disk_free # <<>>

C6_Step ==
    (last.op = "insert" /\ last'.op = "insert" /\ last'.key = last.key) =>
        /\ get(Self, last.key)' = Some(last'.val)
        /\ len(Self)' = len(Self)

\* C6: inserting v1 and then v2 under the same key leaves get(k) = Some(v2)
\* and len() as it was after the first insert.
C6_Overwrite == [][C6_Step]_vars

\* the second insert, of a value of another size, triggered the flush
C6_Witness ==
    /\ last.op = "insert"
    /\ last.flush = "over_diff"

C19_Step ==
    \A k \in Keys :
        Remove(k) =>
            IF contains(Self, k)
            THEN /\ ~contains(Self, k)'
                 /\ get(Self, k)' = None
                 /\ \A k2 \in Keys \ {k} : get(Self, k2)' = get(Self, k2)
                 /\ using_disk =>
                       \E i \in DOMAIN disk_free' : disk_free'[i] = id2pos[k]
            ELSE /\ UNCHANGED <<id2pos, file, in_memory, disk_free, using_disk>>

\* C19: remove(k) of a present key makes contains(k) false and get(k) None,
\* leaves the other keys as they were and, on a disk-backed store, adds the
\* region of k to the free list; remove of an absent key changes nothing.
C19_RemoveReleases == [][C19_Step]_vars

C20_Step ==
    \A n \in 0..MaxThreshold :
        SetMaxMemEntries(n) =>
            IF ~using_disk /\ MapLen(in_memory) > n
            THEN /\ using_disk'
                 /\ in_memory' = EmptyMap
                 /\ \A k \in Keys : get(Self, k)' = get(Self, k)
            ELSE using_disk' = using_disk

\* C20: set_max_mem_entries(n) on an in-memory store holding more than n
\* entries flushes at once: the store is disk-backed, in_memory is empty and
\* every entry is still returned by get; with at most n entries the mode is
\* left as it was.
C20_ThresholdFlushesAtOnce == [][C20_Step]_vars

C25_Step ==
    (/\ last'.op = "insert"
     /\ ~using_disk
     /\ Cardinality(DOMAIN in_memory \cup {last'.key}) <= max_mem_entries) =>
        /\ ~using_disk'
        /\ in_memory' = MapInsert(in_memory, last'.key, last'.val)

\* C25: an insert on an in-memory store after which the store holds at most
\* max_mem_entries entries puts the entry in in_memory and leaves the store
\* in memory; overwriting a present key of a store that holds exactly
\* max_mem_entries entries does not flush.
C25_InsertStaysInMemory == [][C25_Step]_vars

----------------------------------------------------------------------------
(* Properties of DiskFree, checked under SpecDF *)

\* C7: after any sequence of add and find_free with valid released ranges,
\* the extents in parts are pairwise non-overlapping and non-adjacent.
C7_NonOverlappingNonAdjacent ==
    \A i, j \in DOMAIN parts :
        i # j => \/ end(parts[i]) < parts[j].position
                 \/ end(parts[j]) < parts[i].position

\* an add has grown an existing extent while another extent is present
C7_Witness ==
    /\ dfLast.op = "add"
    /\ Len(parts) >= 2
    /\ \E i \in DOMAIN parts :
          /\ parts[i].position <= dfLast.position
          /\ end(parts[i]) >= dfLast.position + dfLast.size
          /\ parts[i].length > dfLast.size

IsInterval(S) == \A x, y \in S : \A z \in x..y : z \in S

C8_Union ==
    (dfLast.adds /\ dfFree # {} /\ IsInterval(dfFree)) =>
        parts = <<PositionLength(CHOOSE x \in dfFree : \A y \in dfFree : x <= y,
                                 Cardinality(dfFree))>>

C8_Bridge ==
    LET p == dfLast'.position
        e == dfLast'.position + dfLast'.size
        Rng(v) == {v[i] : i \in DOMAIN v}
    IN  (dfLast'.op = "add") =>
            \A i, j \in DOMAIN parts :
                (end(parts[i]) = p /\ parts[j].position = e) =>
                    /\ Len(parts') = Len(parts) - 1
                    /\ Rng(parts') =
                         (Rng(parts) \ {parts[i], parts[j]}) \cup
                         {PositionLength(parts[i].position,
                                         end(parts[j]) - parts[i].position)}

\* C8: ranges whose union is contiguous, released into an empty DiskFree in
\* any order, leave exactly one extent covering the union; a range bridging
\* a before-neighbour and an after-neighbour replaces both by one extent.
C8_CoalescingOrderIndependent == [](C8_Union) /\ [][C8_Bridge]_vars

\* three or more bytes were released piecewise, the last release bridging
C8_Witness ==
    /\ dfLast.op = "add"
    /\ dfLast.adds
    /\ dfLast.bridged
    /\ Len(parts) = 1
    /\ parts[1].length >= 3

C9_Step ==
    LET size == dfLast'.size
    IN  (dfLast'.op = "find_free" /\ \E i \in DOMAIN parts : parts[i].length = size) =>
            \E i \in DOMAIN parts :
                /\ parts[i].length = size
                /\ dfLast'.result = Some(parts[i].position)
                /\ parts' = VecRemove(parts, i)

\* C9: when some extent has length exactly size, find_free(size) returns the
\* offset of such an extent and removes it, leaving all other extents as
\* they were.
C9_ExactFitPreferred == [][C9_Step]_vars

\* find_free returned an extent although a larger one lies at a lower offset
C9_Witness ==
    /\ dfLast.op = "find_free"
    /\ dfLast.result # None
    /\ dfLast.size >= 1
    /\ \E i \in DOMAIN parts :
          /\ parts[i].position < dfLast.result[1]
          /\ parts[i].length > dfLast.size

C10_Sorted ==
    \A i, j \in DOMAIN parts : i < j => parts[i].position < parts[j].position

C10_Step ==
    LET size == dfLast'.size
        fits == {i \in DOMAIN parts : parts[i].length >= size}
    IN  (/\ dfLast'.op = "find_free"
         /\ \A i \in DOMAIN parts : parts[i].length # size
         /\ fits # {}) =>
            \E i \in fits :
                /\ \A j \in fits : parts[i].position <= parts[j].position
                /\ dfLast'.result = Some(parts[i].position)
                /\ parts' = [parts EXCEPT
                                ![i] = PositionLength(parts[i].position + size,
                                                      parts[i].length - size)]

C11_Step ==
    LET size == dfLast'.size
    IN  (dfLast'.op = "find_free") =>
            /\ (dfLast'.result = None) <=>
                  (\A i \in DOMAIN parts : parts[i].length < size)
            /\ (dfLast'.result = None) => parts' = parts

\* C11: find_free(size) returns None exactly when no extent has length >= size,
\* and then the extent list is left as it was.
C11_NoneIffNoFit == [][C11_Step]_vars

\* find_free found no extent large enough among the extents present
C11_Witness ==
    /\ dfLast.op = "find_free"
    /\ dfLast.result = None
    /\ dfLast.size >= 1
    /\ Len(parts) >= 2

\* the sum of the lengths of the extents of ps
RECURSIVE SumLengths(_)
SumLengths(ps) == IF ps = <<>> THEN 0 ELSE Head(ps).length + SumLengths(Tail(ps))

C29_Free ==
    /\ SumLengths(parts) = Cardinality(dfFree)
    /\ Bytes(parts) = dfFree

C29_Step ==
    LET size == dfLast'.size
        range == IF dfLast'.result = None THEN {}
                 ELSE dfLast'.result[1] .. (dfLast'.result[1] + size - 1)
    IN  /\ (dfLast'.op = "add") =>
              SumLengths(parts') = SumLengths(parts) + size
        /\ (dfLast'.op = "find_free" /\ dfLast'.result = None) =>
              SumLengths(parts') = SumLengths(parts)
        /\ (dfLast'.op = "find_free" /\ dfLast'.result # None) =>
              /\ SumLengths(parts') = SumLengths(parts) - size
              /\ range \subseteq Bytes(parts)
              /\ range \cap Bytes(parts') = {}

\* C29: after any sequence of add (of ranges of positive length, disjoint
\* from the free bytes) and find_free, the lengths of the extents sum to the
\* bytes added minus the bytes handed out by successful find_free calls, and
\* a range returned by find_free was entirely free before the call and has no
\* free byte after it.
C29_FreeBytesConserved == [](C29_Free) /\ [][C29_Step]_vars

\* find_free has handed out two bytes or more and two extents are left
C29_Witness ==
    /\ dfLast.op = "find_free"
    /\ dfLast.result # None
    /\ dfLast.size >= 2
    /\ Len(parts) >= 2

----------------------------------------------------------------------------
(* Properties of FileVec and of the FileHash it holds, checked under SpecFV, *)
(* SpecFVRemove and SpecFVReverse                                          *)

\* C12: between the public operations of a FileVec its FileHash holds exactly
\* the keys 0..len-1: no key is missing and no key >= len is present.
C12_KeysArePositions ==
    keys(file_vec.file_hash) = 0..(file_vec.len - 1)

\* C13: remove(i) with i < len returns the element at i and shortens the
\* sequence by one: the positions before i keep their elements and the
\* element at p > i moves to p - 1; with i >= len it returns None and
\* changes nothing.
C13_RemoveShifts ==
    \A idx \in 0..FVMaxLen :
        LET r == FileVec_remove(file_vec, idx)
        IN  IF idx < file_vec.len
            THEN /\ r.result = FileVec_get(file_vec, idx)
                 /\ r.fv.len = file_vec.len - 1
                 /\ \A p \in 0..(idx - 1) :
                       FileVec_get(r.fv, p) = FileVec_get(file_vec, p)
                 /\ \A p \in (idx + 1)..(file_vec.len - 1) :
                       FileVec_get(r.fv, p - 1) = FileVec_get(file_vec, p)
            ELSE /\ r.result = None
                 /\ r.fv = file_vec

\* an element before the last one was removed from a disk-backed FileVec
\* that still holds two different elements
C13_Witness ==
    /\ fvLast.op = "remove"
    /\ file_vec.file_hash.using_disk
    /\ \E p \in 0..(file_vec.len - 2) :
          /\ FileVec_get(file_vec, p) # None
          /\ FileVec_get(file_vec, p + 1) # None
          /\ FileVec_get(file_vec, p) # FileVec_get(file_vec, p + 1)

\* what get returns for the positions 0..len-1, in this order
Elements(fv) == [i \in 1..fv.len |-> FileVec_get(fv, i - 1)]

\* the elements of es that are values accepted by keep, in their order
Kept(es, keep) ==
    LET Accepted(e) == e # None /\ e[1] \in keep IN SelectSeq(es, Accepted)

C14_Step ==
    \A keep \in SUBSET Rows :
        FVRetain(keep) =>
            /\ fvLast'.result = "Ok"
            /\ Elements(file_vec') = Kept(Elements(file_vec), keep)
            /\ file_vec'.len =
                  Cardinality({i \in 1..file_vec.len :
                                  /\ Elements(file_vec)[i] # None
                                  /\ Elements(file_vec)[i][1] \in keep})

\* C14: retain(pred) keeps exactly the elements that satisfy pred, in their
\* former order and at the positions 0..m-1, and len becomes their number.
C14_RetainCompacts == [][C14_Step]_vars

Count(es, e) == Cardinality({i \in DOMAIN es : es[i] = e})

C15_Step ==
    \A f \in Comparators :
        FVSortBy(f) =>
            LET before == Elements(file_vec)
                after == Elements(file_vec')
            IN  /\ fvLast'.result = "Ok"
                /\ file_vec'.len = file_vec.len
                /\ \A e \in {None} \cup {Some(row) : row \in Rows} :
                      Count(after, e) = Count(before, e)
                /\ \A i, j \in DOMAIN after :
                      (i < j /\ after[i] # None /\ after[j] # None) =>
                          Compare(f, after[i][1], after[j][1]) # "Greater"

\* C15: sort_by(cmp) leaves a permutation of the former elements, of the same
\* length, in which cmp(get(i), get(j)) is not Greater for i < j.
C15_SortPermutesAndOrders == [][C15_Step]_vars

C16_PushStep ==
    \A row \in Rows :
        FVPush(row) =>
            /\ file_vec'.len = file_vec.len + 1
            /\ Elements(file_vec') = Append(Elements(file_vec), Some(row))

C16_ReverseStep ==
    FVReverse =>
        LET before == Elements(file_vec)
            n == file_vec.len
        IN  /\ file_vec'.len = n
            /\ Elements(file_vec') = [i \in 1..n |-> before[n + 1 - i]]
            /\ \A r \in FileVec_reverse(file_vec') : Elements(r.fv) = before

\* C16: each push onto a FileVec that started empty appends its row, so that
\* get(i) is the i-th row pushed; reverse() keeps len, puts at i the element
\* formerly at len-1-i, and applied twice restores the sequence.
C16_PushThenReverse == [][C16_PushStep /\ C16_ReverseStep]_vars

\* C17: an iteration over a FileVec yields exactly len items, get(0) to
\* get(len-1) in this order, and leaves the FileVec as it was, so that a
\* second iteration yields the same items.
C17_IterationYieldsAll ==
    /\ [](/\ Len(into_iter(file_vec)) = file_vec.len
          /\ [i \in 1..file_vec.len |-> Some(into_iter(file_vec)[i])] =
                Elements(file_vec))
    /\ [][FVIterate =>
              /\ file_vec' = file_vec
              /\ into_iter(file_vec') = into_iter(file_vec)]_vars

\* what get returns for the keys 0..n, in this order
RECURSIVE Gets(_, _)
Gets(s, n) == IF n < 0 THEN <<>> ELSE Append(Gets(s, n - 1), get(s, n))

\* C18: swap(k1, k2) on a FileHash, in memory or on disk, exchanges what get
\* returns for k1 and k2 (an entry present under one key only moves to the
\* other) and leaves every other key, len(), the free list and the file as
\* they were; with k1 = k2 or neither key present nothing changes, and the
\* same swap applied twice restores the state.
C18_SwapExchanges ==
    LET s == file_vec.file_hash
        K == 0..FVMaxLen
        before == Gets(s, FVMaxLen)
    IN  \A k1 \in K, k2 \in K :
            IF k1 > k2 THEN swap(s, k1, k2) = swap(s, k2, k1)
            ELSE LET t == swap(s, k1, k2)
                     Was(k) == IF k = k1 THEN k2 ELSE IF k = k2 THEN k1 ELSE k
                 IN  /\ Gets(t, FVMaxLen) =
                           [i \in 1..(FVMaxLen + 1) |-> before[Was(i - 1) + 1]]
                     /\ keys(t) = {Was(k) : k \in keys(s)}
                     /\ len(t) = len(s)
                     /\ t.disk_free = s.disk_free
                     /\ t.file = s.file
                     /\ (k1 = k2 \/ (~contains(s, k1) /\ ~contains(s, k2))) => t = s
                     /\ swap(t, k1, k2) = s

\* reverse has swapped the entries of a disk-backed FileHash whose first and
\* last values differ
C18_Witness ==
    /\ fvLast.op = "reverse"
    /\ file_vec.file_hash.using_disk
    /\ FileVec_get(file_vec, 0) # None
    /\ FileVec_get(file_vec, file_vec.len - 1) # None
    /\ FileVec_get(file_vec, 0) # FileVec_get(file_vec, file_vec.len - 1)

\* C22: set(i, v) with i >= len returns an error and leaves len and every
\* element as they were; with i < len it returns Ok, makes get(i) = v and
\* leaves len and every other position as they were.
C22_SetInBounds ==
    \A pos \in 0..FVMaxLen, row \in Rows, order \in FVFlushOrders :
        LET r == FileVec_set(file_vec, pos, row, order)
        IN  IF pos >= file_vec.len
            THEN /\ r.result = "Err"
                 /\ r.fv.len = file_vec.len
                 /\ Elements(r.fv) = Elements(file_vec)
            ELSE /\ r.result = "Ok"
                 /\ FileVec_get(r.fv, pos) = Some(row)
                 /\ r.fv.len = file_vec.len
                 /\ \A p \in 0..(file_vec.len - 1) \ {pos} :
                       FileVec_get(r.fv, p) = FileVec_get(file_vec, p)

C27_Step ==
    (FVReverse /\ file_vec.len = 0) =>
        /\ \A r \in FileVec_reverse(file_vec) : r.result = "Ok"
        /\ fvLast'.result = "Ok"
        /\ file_vec' = file_vec

\* C27: reverse() on an empty FileVec returns Ok and leaves it empty: the
\* end cursor len - 1 does not underflow and no swap out of bounds is tried.
C27_ReverseEmptyOk == [][C27_Step]_vars

----------------------------------------------------------------------------
(* Properties of a FileHash run beside a DiskFree, checked under SpecAlloc *)

C24_Step ==
    (last'.op = "insert" /\ using_disk) =>
        LET s1 == release_storage(Self, last'.key)
            size == Len(Encode(last'.val))
            position == id2pos'[last'.key][1]
        IN  /\ position = IF dfLast'.result = None THEN Len(file)
                          ELSE dfLast'.result[1]
            /\ (FirstFit(s1.disk_free, size) = 0) <=> (dfLast'.result = None)

\* C24: the free-space bookkeeping of FileHash (release_storage,
\* get_file_pos_to_write) and DiskFree (add, find_free), given the same
\* released regions and requested sizes, hold the same free bytes and choose
\* the same offset for every write, the end of the file being chosen exactly
\* when find_free returns None.
C24_AllocatorRefinement ==
    /\ [](FreeBytes(disk_free) = Bytes(parts))
    /\ [][C24_Step]_vars

----------------------------------------------------------------------------
(* Properties of a FileHash and its clone, checked under SpecClone *)

\* every value inserted through a handle, and not overwritten or removed
\* through it, is what get returns on that handle
C21_Values ==
    /\ \A k \in DOMAIN abs : get(Self, k) = Some(abs[k])
    /\ clone # None =>
          \A k \in DOMAIN cloneAbs : get(CloneSelf, k) = Some(cloneAbs[k])

\* an insert through one handle is not given a region that overlaps a region
\* in the index of the other handle
C21_Step ==
    \A key \in Keys, value \in Values :
        /\ CloneInsert(key, value) =>
              \A k \in DOMAIN id2pos :
                  Disjoint(clone'[1].id2pos[key], id2pos[k])
        /\ (Insert(key, value) /\ clone # None) =>
              \A k \in DOMAIN clone[1].id2pos :
                  Disjoint(id2pos'[key], clone[1].id2pos[k])

\* C21: a clone of a disk-backed FileHash shares the file and the allocator
\* state with the original: under any interleaving of insert, remove and get
\* through the two handles no region is handed out through one handle while
\* it is live in the index of the other, so every value a handle has inserted
\* and not itself overwritten or removed is returned unchanged by get on it.
C21_CloneSharesAllocator == [](C21_Values) /\ [][C21_Step]_vars

----------------------------------------------------------------------------
(* Properties of the disk-backed store and its in-memory twin, checked      *)
(* under SpecTier                                                          *)

\* C30: after any sequence of insert, remove, swap, retain and clear applied
\* to a store with max_mem_entries = 0 and to a store that stays in memory,
\* get and contains of every key, keys (as a set) and len return the same on
\* both, and so does remove, which returns what get returns.
C30_TierUnobservable ==
    /\ \A k \in Keys :
          /\ get(Self, k) = get(twin, k)
          /\ contains(Self, k) = contains(twin, k)
    /\ keys(Self) = keys(twin)
    /\ len(Self) = len(twin)

----------------------------------------------------------------------------
(* Properties of FileHash under failing I/O and a poisoned lock, checked    *)
(* under SpecIO                                                            *)

\* C23: when the lock of the file is poisoned, insert, get, remove and clear
\* on a disk-backed store report an error, which for get and remove is not
\* the None returned for an absent key, and leave id2pos, in_memory and
\* disk_free as they were.
C23_PoisonedLockReported ==
    (poisoned /\ using_disk) =>
        /\ \A key \in Keys, value \in Values :
              LET r == insert_io(Self, key, value, <<>>, poisoned, NoFailure)
              IN  r.result = "Err" /\ r.s = Self
        /\ \A key \in Keys :
              /\ get_io(Self, key, poisoned) # None
              /\ remove_io(Self, key, poisoned).result # None
              /\ remove_io(Self, key, poisoned).s = Self
        /\ clear_io(Self, poisoned, FALSE).result = "Err"
        /\ clear_io(Self, poisoned, FALSE).s = Self

\* C26: in every state reached through the public operations, a flush that
\* fails part-way included, in_memory and id2pos are not both non-empty and
\* share no key, len() is the number of keys that contains() finds, a
\* disk-backed store has an empty in_memory and an in-memory store an empty
\* id2pos.
C26_ModeExclusive ==
    /\ DOMAIN in_memory = {} \/ DOMAIN id2pos = {}
    /\ DOMAIN in_memory \cap DOMAIN id2pos = {}
    /\ len(Self) = Cardinality({k \in Keys : contains(Self, k)})
    /\ using_disk => DOMAIN in_memory = {}
    /\ ~using_disk => DOMAIN id2pos = {}

C28_Step ==
    (ioLast'.op = "insert" /\ ioLast'.result = "Err" /\ using_disk) =>
        /\ \A k \in Keys : get_io(Self, k, poisoned)' = get_io(Self, k, poisoned)
        /\ \A k \in DOMAIN id2pos :
              \A i \in DOMAIN disk_free' : disk_free'[i] # id2pos[k]

\* C28: an insert(k, v) on a disk-backed store that returns an error leaves
\* get of every key, k included, as it was before the call, and the region
\* of no key in the free list.
C28_FailedInsertKeepsContent == [][C28_Step]_vars

====
